---- MODULE Spec2Model ----
(***************************************************************************)
(* A model of download_data.py: the single-day fetcher                     *)
(* download_energy_balance, the range iterator                             *)
(* download_energy_balance_range and the __main__ entry point.             *)
(*                                                                         *)
(* Text (date strings, file names, request parameters) is a sequence of    *)
(* one-character strings, so that parsing and formatting are computed and  *)
(* not assumed.  Times are whole seconds; a millisecond value is kept as   *)
(* the pair (thousands, units) = thousands * 1000 + units, because the     *)
(* model checker's integers are 32 bits wide and Python's are not.         *)
(***************************************************************************)
EXTENDS Integers, Sequences, FiniteSets, TLC

(***************************************************************************)
(* Bounds of the model.                                                    *)
(***************************************************************************)
\* the longest range (in days) a caller asks for
MaxRangeDays == 3
\* the number of top-level calls in one behaviour
MaxCalls == 2

(***************************************************************************)
(* Characters and numbers.                                                 *)
(***************************************************************************)
Digits == {"0", "1", "2", "3", "4", "5", "6", "7", "8", "9"}

DigitVal == [c \in Digits |->
    CASE c = "0" -> 0 [] c = "1" -> 1 [] c = "2" -> 2 [] c = "3" -> 3
      [] c = "4" -> 4 [] c = "5" -> 5 [] c = "6" -> 6 [] c = "7" -> 7
      [] c = "8" -> 8 [] c = "9" -> 9]

DigitChar == [n \in 0..9 |-> CHOOSE c \in Digits : DigitVal[c] = n]

IsDigits(t) == \A k \in 1..Len(t) : t[k] \in Digits

\* int() of a run of one or two digits, as _strptime applies it to a field
Val2(t) == IF Len(t) = 1 THEN DigitVal[t[1]]
           ELSE 10 * DigitVal[t[1]] + DigitVal[t[2]]

\* int() of the four digits of %Y
Val4(t) == 1000 * DigitVal[t[1]] + 100 * DigitVal[t[2]]
           + 10 * DigitVal[t[3]] + DigitVal[t[4]]

\* "%02d" and "%04d"
Pad2(n) == <<DigitChar[(n \div 10) % 10], DigitChar[n % 10]>>

Pad4(n) == <<DigitChar[(n \div 1000) % 10], DigitChar[(n \div 100) % 10],
             DigitChar[(n \div 10) % 10], DigitChar[n % 10]>>

\* the first position >= from at which s holds c, or 0
IndexOf(s, c, from) ==
    IF \E k \in from..Len(s) : s[k] = c
    THEN CHOOSE k \in from..Len(s) : s[k] = c /\ \A j \in from..(k - 1) : s[j] # c
    ELSE 0

\* s[i..j], empty when the slice is empty or out of range
Slice(s, i, j) == IF i >= 1 /\ j <= Len(s) /\ i <= j THEN SubSeq(s, i, j) ELSE <<>>

(***************************************************************************)
(* The proleptic Gregorian calendar of datetime.                           *)
(***************************************************************************)
IsLeap(y) == (y % 4 = 0) /\ ((y % 100 # 0) \/ (y % 400 = 0))

DaysInMonth(y, m) ==
    IF m = 2 THEN (IF IsLeap(y) THEN 29 ELSE 28)
    ELSE IF m \in {4, 6, 9, 11} THEN 30 ELSE 31

\* days in the months of year y before month m
DaysBeforeMonth(y, m) ==
    LET cum == <<0, 31, 59, 90, 120, 151, 181, 212, 243, 273, 304, 334>>
    IN  cum[m] + (IF m > 2 /\ IsLeap(y) THEN 1 ELSE 0)

\* days before January 1st of year y, counted from 0001-01-01
DaysBeforeYear(y) ==
    LET p == y - 1 IN p * 365 + p \div 4 - p \div 100 + p \div 400

\* date.toordinal(): 0001-01-01 is day 1
ToOrdinal(y, m, d) == DaysBeforeYear(y) + DaysBeforeMonth(y, m) + d

\* the ordinal of 1970-01-01, the epoch
EpochOrdinal == ToOrdinal(1970, 1, 1)

\* date.fromordinal(n): the inverse of ToOrdinal
FromOrdinal(n) ==
    LET guess == (n - 1) \div 366 + 1
        y == CHOOSE c \in guess..(guess + 30) :
                 DaysBeforeYear(c) < n /\ n <= DaysBeforeYear(c + 1)
        r == n - DaysBeforeYear(y)
        m == CHOOSE c \in 1..12 :
                 DaysBeforeMonth(y, c) < r /\ r <= DaysBeforeMonth(y, c) + DaysInMonth(y, c)
    IN  [year |-> y, month |-> m, day |-> r - DaysBeforeMonth(y, m)]

(***************************************************************************)
(* datetime.strptime.  _strptime turns the format into a regular           *)
(* expression: %Y is \d\d\d\d, %m is 1[0-2]|0[1-9]|[1-9], %d is            *)
(* 3[0-1]|[1-2]\d|0[1-9]|[1-9]| [1-9], %H is 2[0-3]|[0-1]\d|\d, %M is      *)
(* [0-5]\d|\d, %S is 6[0-1]|[0-5]\d|\d, and a blank of the format is \s+.  *)
(* The whole string must be consumed, and the fields must then make a      *)
(* datetime (year >= 1, a day of the month, second <= 59).  Every failure  *)
(* is a ValueError.                                                        *)
(***************************************************************************)
Whitespace == {" "}

MonthTok(t) == /\ IsDigits(t)
               /\ \/ Len(t) = 2 /\ Val2(t) \in 1..12
                  \/ Len(t) = 1 /\ Val2(t) \in 1..9

DayTok(t) == \/ IsDigits(t) /\ Len(t) = 2 /\ Val2(t) \in 1..31
             \/ IsDigits(t) /\ Len(t) = 1 /\ Val2(t) \in 1..9
             \/ Len(t) = 2 /\ t[1] = " " /\ t[2] \in Digits \ {"0"}

DayVal(t) == IF t[1] = " " THEN DigitVal[t[2]] ELSE Val2(t)

HourTok(t) == /\ IsDigits(t)
              /\ \/ Len(t) = 2 /\ Val2(t) \in 0..23
                 \/ Len(t) = 1

MinuteTok(t) == /\ IsDigits(t)
                /\ \/ Len(t) = 2 /\ Val2(t) \in 0..59
                   \/ Len(t) = 1

SecondTok(t) == /\ IsDigits(t)
                /\ \/ Len(t) = 2 /\ Val2(t) \in 0..61
                   \/ Len(t) = 1

\* the last position of the run of characters of set that starts at i (i - 1: no run)
RunEnd(s, i, set) ==
    IF i <= Len(s) /\ s[i] \in set
    THEN CHOOSE j \in i..Len(s) :
            /\ \A k \in i..j : s[k] \in set
            /\ (j = Len(s) \/ s[j + 1] \notin set)
    ELSE i - 1

\* the value of a failed parse: strptime raised ValueError
NoDate == [ok |-> FALSE, year |-> 0, month |-> 0, day |-> 0,
           hour |-> 0, minute |-> 0, second |-> 0]

\* datetime(year, month, day, hour, minute, second), or the ValueError of its range checks
MakeDatetime(y, m, d, H, M, S) ==
    IF y >= 1 /\ d <= DaysInMonth(y, m) /\ S <= 59
    THEN [ok |-> TRUE, year |-> y, month |-> m, day |-> d,
          hour |-> H, minute |-> M, second |-> S]
    ELSE NoDate

\* datetime.strptime(s, "%Y-%m-%d")
StrptimeDate(s) ==
    LET p2 == IndexOf(s, "-", 6)
        yt == Slice(s, 1, 4)
        mt == Slice(s, 6, p2 - 1)
        dt == Slice(s, p2 + 1, Len(s))
    IN  IF /\ Len(s) >= 5
           /\ IsDigits(yt)
           /\ s[5] = "-"
           /\ p2 > 0
           /\ MonthTok(mt)
           /\ DayTok(dt)
        THEN MakeDatetime(Val4(yt), Val2(mt), DayVal(dt), 0, 0, 0)
        ELSE NoDate

\* datetime.strptime(s, "%Y-%m-%d %H:%M:%S")
StrptimeDateTime(s) ==
    LET p2 == IndexOf(s, "-", 6)
        yt == Slice(s, 1, 4)
        mt == Slice(s, 6, p2 - 1)
        dEnd == IF p2 + 1 <= Len(s) /\ s[p2 + 1] = " "
                THEN p2 + 2
                ELSE RunEnd(s, p2 + 1, Digits)
        dt == Slice(s, p2 + 1, dEnd)
        wEnd == RunEnd(s, dEnd + 1, Whitespace)
        c1 == IndexOf(s, ":", wEnd + 1)
        c2 == IndexOf(s, ":", c1 + 1)
        Ht == Slice(s, wEnd + 1, c1 - 1)
        Mt == Slice(s, c1 + 1, c2 - 1)
        St == Slice(s, c2 + 1, Len(s))
    IN  IF /\ Len(s) >= 5
           /\ IsDigits(yt)
           /\ s[5] = "-"
           /\ p2 > 0
           /\ MonthTok(mt)
           /\ DayTok(dt)
           /\ wEnd > dEnd
           /\ c1 > 0
           /\ c2 > 0
           /\ HourTok(Ht)
           /\ MinuteTok(Mt)
           /\ SecondTok(St)
        THEN MakeDatetime(Val4(yt), Val2(mt), DayVal(dt), Val2(Ht), Val2(Mt), Val2(St))
        ELSE NoDate

(***************************************************************************)
(* Formatting: strftime and date.isoformat.                                *)
(***************************************************************************)
\* strftime("%Y-%m-%d"), and date.isoformat()
FormatDate(dt) == Pad4(dt.year) \o <<"-">> \o Pad2(dt.month) \o <<"-">> \o Pad2(dt.day)

\* strftime("%Y-%m-%d %H:%M:%S")
FormatDateTime(dt) ==
    FormatDate(dt) \o <<" ">> \o Pad2(dt.hour) \o <<":">> \o Pad2(dt.minute)
                   \o <<":">> \o Pad2(dt.second)

(***************************************************************************)
(* ZoneInfo("Asia/Bangkok") and datetime.timestamp().  The zone's rules:   *)
(* local mean time, UTC+6:42:04, until 1920-04-01 00:00 local, when the    *)
(* clocks went to 00:17:56 and UTC+7; a wall time in the skipped interval  *)
(* gets the earlier offset (fold = 0).                                     *)
(***************************************************************************)
\* UTC+7, in seconds
BangkokOffset == 25200
\* UTC+6:42:04, in seconds
BangkokLmtOffset == 24124

\* seconds from 1970-01-01 00:00:00 to the wall time dt, both read on the same clock
LocalSeconds(dt) ==
    (ToOrdinal(dt.year, dt.month, dt.day) - EpochOrdinal) * 86400
    + dt.hour * 3600 + dt.minute * 60 + dt.second

\* the first wall time of UTC+7
BangkokStandardFrom ==
    LocalSeconds([year |-> 1920, month |-> 4, day |-> 1,
                  hour |-> 0, minute |-> 17, second |-> 56])

\* localized_datetime.utcoffset(), for the wall time local_seconds
UtcOffset(local_seconds) ==
    IF local_seconds < BangkokStandardFrom THEN BangkokLmtOffset ELSE BangkokOffset

\* the offset applied with the wrong sign
ToUtcWrongSign(local_seconds) == local_seconds + UtcOffset(local_seconds)

\* the instant of the wall time local_seconds, in seconds since the epoch
ToUtc(local_seconds) == local_seconds - UtcOffset(local_seconds)

\* localized_datetime.timestamp(): whole seconds since the epoch
Timestamp(dt) == ToUtc(LocalSeconds(dt))

\* int(timestamp * 1000) as thousands * 1000 + units
QueryTimeMs(dt) == [thousands |-> Timestamp(dt), units |-> 0]

\* the wall time that is n seconds after 1970-01-01 00:00:00 on the same clock
FromLocalSeconds(n) ==
    LET days == n \div 86400
        sod == n % 86400
        d == FromOrdinal(days + EpochOrdinal)
    IN  [ok |-> TRUE, year |-> d.year, month |-> d.month, day |-> d.day,
         hour |-> sod \div 3600, minute |-> (sod % 3600) \div 60, second |-> sod % 60]

(***************************************************************************)
(* The remote service and the JSON codec.  A request ends in a transport   *)
(* fault raised by requests.get, or in a response with a status and a      *)
(* body.  The payload is opaque: a body is a JSON text or it is not.       *)
(***************************************************************************)
JsonBodies == {"{\"pv\":1}", "{\"pv\":2}"}

NonJsonBodies == {"<html>"}

\* the final statuses requests hands back: success, a redirect it does not
\* follow (no Location), a client error, a server error
Statuses == {200, 304, 404, 500}

TransportFaults == {"ConnectionError", "Timeout"}

Responses ==
    [kind : {"response"}, status : Statuses, body : JsonBodies \cup NonJsonBodies]
    \cup [kind : TransportFaults, status : {0}, body : {""}]

\* a decoder that falls back to a payload for a body that is not JSON
ResponseJsonOrDefault(body) ==
    [ok |-> TRUE, payload |-> IF body = "{\"pv\":2}" THEN [pv |-> 2] ELSE [pv |-> 1]]

\* response.json(): the parsed payload, or no payload for a body that is not JSON
ResponseJson(body) ==
    IF body \in JsonBodies
    THEN [ok |-> TRUE, payload |-> IF body = "{\"pv\":1}" THEN [pv |-> 1] ELSE [pv |-> 2]]
    ELSE [ok |-> FALSE, payload |-> [pv |-> 0]]

\* json.dump(payload, f, ensure_ascii=False, indent=2): the text written
JsonDump(payload) ==
    IF payload.pv = 1 THEN "{\n  \"pv\": 1\n}" ELSE "{\n  \"pv\": 2\n}"

\* a check of the status that lets client errors through
RaisesForServerError(status) == 500 <= status /\ status < 600

\* response.raise_for_status() raises HTTPError for 4xx and 5xx, and for nothing else
RaisesForStatus(status) == 400 <= status /\ status < 600

(***************************************************************************)
(* What the code did, in order, as events.  Inside one run of the          *)
(* single-day fetcher:                                                     *)
(*   get       requests.get was issued                 s = dateStr,        *)
(*             queryTime = n * 1000 + u,               c = Cookie header   *)
(*   response  a response came back                    n = status, c = body*)
(*   mkdir     os.makedirs(output_dir, exist_ok=True)  c = output_dir      *)
(*   write     the file was opened "w" and written     s = path, c = text  *)
(*   raise     the fetcher raised                      c = exception class,*)
(*                                                     n = status          *)
(* and in the caller of the fetcher, over one top-level call:              *)
(*   call      the fetcher was entered                 s = date_str        *)
(*   saved     the fetcher returned                    s = path, c = text  *)
(*   failed    the fetcher raised                      c = exception class,*)
(*                                                     n = status          *)
(*   sleep     time.sleep                              n = seconds         *)
(***************************************************************************)
Ev(e, s, n, u, c) == [e |-> e, s |-> s, n |-> n, u |-> u, c |-> c]

\* an exception: its class, what it says, and the status an HTTPError carries
Exc(class, msg, status) == [class |-> class, msg |-> msg, status |-> status]

NoExc == Exc("", "", 0)

\* the message of the ValueError that strptime raises (one stands for all of them)
StrptimeMsg == "time data does not match format"

(***************************************************************************)
(* download_energy_balance                                                 *)
(***************************************************************************)
\* lines 28-34: the format is chosen by whether the string holds a blank
ParseDateStr(date_str) ==
    IF \E k \in 1..Len(date_str) : date_str[k] = " "
    THEN StrptimeDateTime(date_str)
    ELSE StrptimeDate(date_str)

\* os.path.abspath(os.path.join(output_dir, f"{date_part_for_filename}.json"))
OutputPath(output_dir, date_part_for_filename) ==
    <<"/cwd/", output_dir, "/">> \o date_part_for_filename \o <<".", "j", "s", "o", "n">>

\* a write that leaves the new file alone in the directory
WriteFileAlone(files, output_path, text) == [p \in {output_path} |-> text]

\* open(output_path, "w") and json.dump: the file is created or replaced, no other is touched
WriteFile(files, output_path, text) ==
    [p \in DOMAIN files \cup {output_path} |->
        IF p = output_path THEN text ELSE files[p]]

\* the except clause of line 73 catches json.JSONDecodeError.  response.json() raises
\* requests' JSONDecodeError, which is one unless simplejson is installed; then it
\* passes the clause and leaves the function as it is.
DecodeFailure(has_simplejson) ==
    IF has_simplejson
    THEN Exc("requests.JSONDecodeError", "Expecting value", 0)
    ELSE Exc("ValueError", "Response was not valid JSON", 0)

\* the fetcher raised exc: nothing was written
FetchFailed(exc, events, files, dirs) ==
    [exc |-> exc, ret |-> <<>>, files |-> files, dirs |-> dirs,
     events |-> events \o <<Ev("raise", <<>>, exc.status, 0, exc.class)>>]

\* lines 76-84: the directory is made, the file written, its path returned
SavePayload(output_path, text, output_dir, events, files, dirs) ==
    [exc |-> NoExc, ret |-> output_path,
     files |-> WriteFile(files, output_path, text),
     dirs |-> dirs \cup {output_dir},
     events |-> events \o <<Ev("mkdir", <<>>, 0, 0, output_dir),
                            Ev("write", output_path, 0, 0, text)>>]

\* lines 36-41: the three values derived from the one localized datetime
QueryInstant(parsed_local_datetime) ==
    [query_time_ms |-> QueryTimeMs(parsed_local_datetime),
     canonical_date_str |-> FormatDateTime(parsed_local_datetime),
     date_part_for_filename |-> FormatDate(parsed_local_datetime)]

\* lines 43-84: the request, the two checks of the response, the file
RequestAndSave(q, cookie, output_dir, resp, files, dirs, has_simplejson) ==
    LET sent == <<Ev("get", q.canonical_date_str, q.query_time_ms.thousands,
                     q.query_time_ms.units, cookie)>>
        got == sent \o <<Ev("response", <<>>, resp.status, 0, resp.body)>>
    IN  IF resp.kind # "response"
        THEN FetchFailed(Exc(resp.kind, "", 0), sent, files, dirs)
        ELSE IF RaisesForStatus(resp.status)
        THEN FetchFailed(Exc("HTTPError", "", resp.status), got, files, dirs)
        ELSE IF ~ResponseJson(resp.body).ok
        THEN FetchFailed(DecodeFailure(has_simplejson), got, files, dirs)
        ELSE SavePayload(OutputPath(output_dir, q.date_part_for_filename),
                         JsonDump(ResponseJson(resp.body).payload),
                         output_dir, got, files, dirs)

\* the request sent before the date string is looked at
AfterParseRequestFirst(parsed_local_datetime, cookie, output_dir, resp, files, dirs, has_simplejson) ==
    IF ~parsed_local_datetime.ok
    THEN FetchFailed(Exc("ValueError", StrptimeMsg, 0),
                     <<Ev("get", <<>>, 0, 0, cookie)>>, files, dirs)
    ELSE RequestAndSave(QueryInstant(parsed_local_datetime), cookie, output_dir,
                        resp, files, dirs, has_simplejson)

\* the function after line 34, the date string parsed or not
AfterParse(parsed_local_datetime, cookie, output_dir, resp, files, dirs, has_simplejson) ==
    IF ~parsed_local_datetime.ok
    THEN FetchFailed(Exc("ValueError", StrptimeMsg, 0), <<>>, files, dirs)
    ELSE RequestAndSave(QueryInstant(parsed_local_datetime), cookie, output_dir,
                        resp, files, dirs, has_simplejson)

\* The whole function: what it raises or returns (exc, ret), the files and
\* directories it leaves, and its events.
download_energy_balance(date_str, cookie, output_dir, resp, files, dirs, has_simplejson) ==
    AfterParse(ParseDateStr(date_str), cookie, output_dir, resp, files, dirs,
               has_simplejson)

(***************************************************************************)
(* download_energy_balance_range                                           *)
(***************************************************************************)
\* datetime.strptime(..., "%Y-%m-%d").date()
ParseRangeDate(s) == StrptimeDate(s)

\* date < date: by year, then month, then day
DateLT(a, b) ==
    \/ a.year < b.year
    \/ a.year = b.year /\ a.month < b.month
    \/ a.year = b.year /\ a.month = b.month /\ a.day < b.day

\* a loop that stops only on the day itself: while current != end
LoopConditionNotEqual(current, end) == current # end

\* line 111: while current <= end
LoopCondition(current, end) == DateLT(current, end) \/ current = end

\* a pause after every fetch, the last one too
SleepConditionEveryDay(current, end, delay_seconds) == delay_seconds > 0

\* line 114: if current < end and delay_seconds > 0
SleepCondition(current, end, delay_seconds) == DateLT(current, end) /\ delay_seconds > 0

\* a calendar without leap days
NextDayNoLeap(current) ==
    IF current.day < (IF current.month = 2 THEN 28
                      ELSE DaysInMonth(current.year, current.month))
    THEN [current EXCEPT !.day = current.day + 1]
    ELSE IF current.month < 12
    THEN [current EXCEPT !.month = current.month + 1, !.day = 1]
    ELSE [current EXCEPT !.year = current.year + 1, !.month = 1, !.day = 1]

\* line 116: current += timedelta(days=1)
NextDay(current) ==
    IF current.day < DaysInMonth(current.year, current.month)
    THEN [current EXCEPT !.day = current.day + 1]
    ELSE IF current.month < 12
    THEN [current EXCEPT !.month = current.month + 1, !.day = 1]
    ELSE [current EXCEPT !.year = current.year + 1, !.month = 1, !.day = 1]

\* a loop that notes the failure of a day and goes on to the next
AfterFetchContinue(r, date_str, current, end, delay_seconds, saved_paths) ==
    IF r.exc # NoExc
    THEN [exc |-> NoExc, current |-> NextDay(current), saved_paths |-> saved_paths,
          files |-> r.files, dirs |-> r.dirs, fetch |-> r.events,
          log |-> <<Ev("call", date_str, 0, 0, ""),
                    Ev("failed", <<>>, r.exc.status, 0, r.exc.class)>>]
    ELSE [exc |-> NoExc, current |-> NextDay(current),
          saved_paths |-> Append(saved_paths, r.ret),
          files |-> r.files, dirs |-> r.dirs, fetch |-> r.events,
          log |-> <<Ev("call", date_str, 0, 0, ""),
                    Ev("saved", r.ret, 0, 0, r.files[r.ret])>>
                  \o (IF SleepCondition(current, end, delay_seconds)
                      THEN <<Ev("sleep", <<>>, delay_seconds, 0, "")>>
                      ELSE <<>>)]

\* lines 113-116, the fetcher having returned or raised (r).  An exception of the
\* fetcher is not caught: it leaves the loop and the function as it is.
AfterFetch(r, date_str, current, end, delay_seconds, saved_paths) ==
    IF r.exc # NoExc
    THEN [exc |-> r.exc, current |-> current, saved_paths |-> saved_paths,
          files |-> r.files, dirs |-> r.dirs, fetch |-> r.events,
          log |-> <<Ev("call", date_str, 0, 0, ""),
                    Ev("failed", <<>>, r.exc.status, 0, r.exc.class)>>]
    ELSE [exc |-> NoExc, current |-> NextDay(current),
          saved_paths |-> Append(saved_paths, r.ret),
          files |-> r.files, dirs |-> r.dirs, fetch |-> r.events,
          log |-> <<Ev("call", date_str, 0, 0, ""),
                    Ev("saved", r.ret, 0, 0, r.files[r.ret])>>
                  \o (IF SleepCondition(current, end, delay_seconds)
                      THEN <<Ev("sleep", <<>>, delay_seconds, 0, "")>>
                      ELSE <<>>)]

\* One pass of the loop body, lines 112-116.
RangeBody(current, end, cookie, output_dir, delay_seconds, saved_paths,
          resp, files, dirs, has_simplejson) ==
    AfterFetch(download_energy_balance(FormatDate(current), cookie, output_dir, resp,
                                       files, dirs, has_simplejson),
               FormatDate(current), current, end, delay_seconds, saved_paths)

(***************************************************************************)
(* What callers pass in.                                                   *)
(***************************************************************************)
D_2025_08_12 == <<"2", "0", "2", "5", "-", "0", "8", "-", "1", "2">>
D_2025_08_14 == <<"2", "0", "2", "5", "-", "0", "8", "-", "1", "4">>
D_2024_02_28 == <<"2", "0", "2", "4", "-", "0", "2", "-", "2", "8">>
D_2024_03_01 == <<"2", "0", "2", "4", "-", "0", "3", "-", "0", "1">>
D_2025_12_31 == <<"2", "0", "2", "5", "-", "1", "2", "-", "3", "1">>
D_2026_01_01 == <<"2", "0", "2", "6", "-", "0", "1", "-", "0", "1">>
D_1919_01_01 == <<"1", "9", "1", "9", "-", "0", "1", "-", "0", "1">>
D_1920_04_02 == <<"1", "9", "2", "0", "-", "0", "4", "-", "0", "2">>
\* an impossible day of the month
D_2025_02_30 == <<"2", "0", "2", "5", "-", "0", "2", "-", "3", "0">>
\* fields without their leading zeros
D_2025_8_2 == <<"2", "0", "2", "5", "-", "8", "-", "2">>
D_2025_8_13 == <<"2", "0", "2", "5", "-", "8", "-", "1", "3">>
\* the malformed strings of the specification
D_Slashes == <<"2", "0", "2", "5", "/", "0", "8", "/", "1", "2">>
D_AugWords == <<"A", "u", "g", " ", "1", "2", " ", "2", "0", "2", "5">>
T_13_45_07 == <<" ", "1", "3", ":", "4", "5", ":", "0", "7">>
T_23_59_59 == <<" ", "2", "3", ":", "5", "9", ":", "5", "9">>
T_00_17_56 == <<" ", "0", "0", ":", "1", "7", ":", "5", "6">>
T_00_17_55 == <<" ", "0", "0", ":", "1", "7", ":", "5", "5">>
\* two blanks, and fields without their leading zeros
T_1_2_3 == <<" ", " ", "1", ":", "2", ":", "3">>
\* a second that the pattern of %S takes and datetime refuses
T_10_00_60 == <<" ", "1", "0", ":", "0", "0", ":", "6", "0">>
D_1920_04_01 == <<"1", "9", "2", "0", "-", "0", "4", "-", "0", "1">>

\* date_str of a direct call of download_energy_balance
DateStrs ==
    { D_2025_08_12, D_2025_08_12 \o T_13_45_07, D_2024_03_01 \o T_23_59_59,
      D_2025_8_2, D_2025_08_12 \o T_1_2_3,
      D_1919_01_01, D_1920_04_01 \o T_00_17_55, D_1920_04_01 \o T_00_17_56,
      D_Slashes, D_AugWords, D_2025_02_30, D_2025_08_12 \o T_10_00_60 }

\* start_date and end_date of a call of download_energy_balance_range
StartDates ==
    { D_2025_08_12, D_2025_08_14, D_2024_02_28, D_2025_12_31, D_2025_8_13,
      D_Slashes, D_2025_08_12 \o T_13_45_07 }

EndDates ==
    { D_2025_08_12, D_2025_08_14, D_2024_03_01, D_2026_01_01,
      D_AugWords, D_2025_08_14 \o T_13_45_07 }

\* delay_seconds: positive, zero, negative
Delays == {2, 0, -1}

Cookies == {"sid=abc"}

OutputDirs == {"output"}

\* os.environ after load_dotenv(): FUSIONSOLAR_COOKIE unset, empty, or a cookie
Environments ==
    { [isset |-> FALSE, value |-> ""], [isset |-> TRUE, value |-> ""],
      [isset |-> TRUE, value |-> "sid=abc"] }

(***************************************************************************)
(* The state.                                                              *)
(***************************************************************************)
VARIABLES
    pc,           \* "idle": no call is running; "loop": at the loop test of line 111
    calls,        \* top-level calls made so far
    args,         \* the arguments of the current (or last) top-level call
    files,        \* the file system: path |-> text
    dirs,         \* the directories that exist
    current,      \* download_energy_balance_range: current
    end,          \* download_energy_balance_range: end
    saved_paths,  \* download_energy_balance_range: saved_paths
    log,          \* the caller's events of the current top-level call
    fetch,        \* the events of the latest run of the single-day fetcher
    result,       \* how the current top-level call ended, if it has
    stdout        \* what the entry point printed: the counts of its messages

vars == <<pc, calls, args, files, dirs, current, end, saved_paths, log, fetch,
          result, stdout>>

Args(op, date_str, start_date, end_date, cookie, output_dir, delay_seconds, env) ==
    [op |-> op, date_str |-> date_str, start_date |-> start_date,
     end_date |-> end_date, cookie |-> cookie, output_dir |-> output_dir,
     delay_seconds |-> delay_seconds, env |-> env]

NoEnv == [isset |-> FALSE, value |-> ""]

Result(kind, exc, value) == [kind |-> kind, exc |-> exc, value |-> value]

NoArgs == Args("", <<>>, <<>>, <<>>, "", "", 0, NoEnv)

NoResult == Result("none", NoExc, <<>>)

\* a process that has made no call yet
Fresh ==
    /\ pc = "idle"
    /\ args = NoArgs
    /\ current = NoDate
    /\ end = NoDate
    /\ saved_paths = <<>>
    /\ log = <<>>
    /\ fetch = <<>>
    /\ result = NoResult
    /\ stdout = <<>>

Init ==
    /\ Fresh
    /\ calls = 0
    /\ files = <<>>
    /\ dirs = {}

\* A direct call of download_energy_balance has returned or raised (r).
Downloaded(date_str, cookie, output_dir, r) ==
    /\ calls' = calls + 1
    /\ args' = Args("download_energy_balance", date_str, <<>>, <<>>, cookie,
                    output_dir, 0, NoEnv)
    /\ files' = r.files
    /\ dirs' = r.dirs
    /\ fetch' = r.events
    /\ log' = <<Ev("call", date_str, 0, 0, "")>>
              \o (IF r.exc # NoExc
                  THEN <<Ev("failed", <<>>, r.exc.status, 0, r.exc.class)>>
                  ELSE <<Ev("saved", r.ret, 0, 0, r.files[r.ret])>>)
    /\ result' = IF r.exc # NoExc THEN Result("raised", r.exc, <<>>)
                 ELSE Result("returned", NoExc, <<r.ret>>)
    /\ stdout' = <<>>
    /\ UNCHANGED <<pc, current, end, saved_paths>>

\* A direct call of download_energy_balance.
CallDownload(date_str, cookie, output_dir, resp, has_simplejson) ==
    /\ pc = "idle"
    /\ result = NoResult
    /\ calls < MaxCalls
    /\ Downloaded(date_str, cookie, output_dir,
                  download_energy_balance(date_str, cookie, output_dir, resp,
                                          files, dirs, has_simplejson))

\* Lines 107-110 of download_energy_balance_range: both dates are parsed, start
\* first, before the loop is entered.
Entered(a, c, e) ==
    /\ calls' = calls + 1
    /\ args' = a
    /\ log' = <<>>
    /\ fetch' = <<>>
    /\ stdout' = <<>>
    /\ saved_paths' = <<>>
    /\ UNCHANGED <<files, dirs>>
    /\ IF c.ok /\ e.ok
       THEN /\ pc' = "loop"
            /\ current' = c
            /\ end' = e
            /\ result' = Result("running", NoExc, <<>>)
       ELSE /\ pc' = "idle"
            /\ current' = NoDate
            /\ end' = NoDate
            /\ result' = Result("raised", Exc("ValueError", StrptimeMsg, 0), <<>>)

RangeEnter(a) == Entered(a, ParseRangeDate(a.start_date), ParseRangeDate(a.end_date))

\* the ranges the model follows: at most MaxRangeDays days long
DaysApart(c, e) ==
    (c.ok /\ e.ok) =>
        ToOrdinal(e.year, e.month, e.day) - ToOrdinal(c.year, c.month, c.day)
            < MaxRangeDays

WithinBound(start_date, end_date) ==
    DaysApart(ParseRangeDate(start_date), ParseRangeDate(end_date))

\* A call of download_energy_balance_range.
CallRange(start_date, end_date, cookie, output_dir, delay_seconds) ==
    /\ pc = "idle"
    /\ result = NoResult
    /\ calls < MaxCalls
    /\ WithinBound(start_date, end_date)
    /\ RangeEnter(Args("download_energy_balance_range", <<>>, start_date, end_date,
                       cookie, output_dir, delay_seconds, NoEnv))

\* One pass of the loop has run (b).
Iterated(b) ==
    /\ files' = b.files
    /\ dirs' = b.dirs
    /\ fetch' = b.fetch
    /\ log' = log \o b.log
    /\ current' = b.current
    /\ saved_paths' = b.saved_paths
    /\ IF b.exc # NoExc
       THEN pc' = "idle" /\ result' = Result("raised", b.exc, <<>>)
       ELSE pc' = "loop" /\ UNCHANGED result
    /\ UNCHANGED <<calls, args, end, stdout>>

\* One pass of the loop, lines 111-116.
RangeIterate(resp, has_simplejson) ==
    /\ pc = "loop"
    /\ LoopCondition(current, end)
    /\ Iterated(RangeBody(current, end, args.cookie, args.output_dir,
                          args.delay_seconds, saved_paths, resp, files, dirs,
                          has_simplejson))

\* The loop test fails: line 118 returns saved_paths; the entry point then prints
\* the count, line 139.
RangeReturn ==
    /\ pc = "loop"
    /\ ~LoopCondition(current, end)
    /\ pc' = "idle"
    /\ result' = Result("returned", NoExc, saved_paths)
    /\ stdout' = IF args.op = "__main__" THEN <<Len(saved_paths)>> ELSE stdout
    /\ UNCHANGED <<calls, args, files, dirs, current, end, saved_paths, log, fetch>>

\* The entry point, lines 124-138.  os.environ[...] raises KeyError for a variable
\* that is not set; an empty value reaches the check of line 127.
Main(env) ==
    /\ pc = "idle"
    /\ result = NoResult
    /\ calls < MaxCalls
    /\ IF env.isset /\ env.value # ""
       THEN RangeEnter(Args("__main__", <<>>, D_2025_08_12, D_2025_08_12,
                            env.value, "output", 2, env))
       ELSE /\ calls' = calls + 1
            /\ args' = Args("__main__", <<>>, <<>>, <<>>, "", "", 0, env)
            /\ result' = Result("raised",
                            IF ~env.isset
                            THEN Exc("KeyError", "FUSIONSOLAR_COOKIE", 0)
                            ELSE Exc("RuntimeError",
                                     "Set the FUSIONSOLAR_COOKIE environment variable with your session cookie.",
                                     0),
                            <<>>)
            /\ log' = <<>>
            /\ fetch' = <<>>
            /\ stdout' = <<>>
            /\ saved_paths' = <<>>
            /\ current' = NoDate
            /\ end' = NoDate
            /\ UNCHANGED <<pc, files, dirs>>

\* The call is over and its process ends: nothing is kept in memory from one call
\* to the next, and the files stay.
Exit ==
    /\ pc = "idle"
    /\ result # NoResult
    /\ calls < MaxCalls
    /\ args' = NoArgs
    /\ current' = NoDate
    /\ end' = NoDate
    /\ saved_paths' = <<>>
    /\ log' = <<>>
    /\ fetch' = <<>>
    /\ result' = NoResult
    /\ stdout' = <<>>
    /\ UNCHANGED <<pc, calls, files, dirs>>

Next ==
    \/ \E date_str \in DateStrs, cookie \in Cookies, output_dir \in OutputDirs,
          resp \in Responses, has_simplejson \in BOOLEAN :
            CallDownload(date_str, cookie, output_dir, resp, has_simplejson)
    \/ \E start_date \in StartDates, end_date \in EndDates, cookie \in Cookies,
          output_dir \in OutputDirs, delay_seconds \in Delays :
            CallRange(start_date, end_date, cookie, output_dir, delay_seconds)
    \/ \E resp \in Responses, has_simplejson \in BOOLEAN :
            RangeIterate(resp, has_simplejson)
    \/ RangeReturn
    \/ \E env \in Environments : Main(env)
    \/ Exit

Spec == Init /\ [][Next]_vars

(***************************************************************************)
(* Vocabulary of the properties.                                           *)
(***************************************************************************)
\* the events of seq whose kind is in kinds, in order
Sel(seq, kinds) == SelectSeq(seq, LAMBDA ev : ev.e \in kinds)

Last(seq) == seq[Len(seq)]

\* the current call is (or runs) the range iterator
InRange == args.op \in {"download_energy_balance_range", "__main__"} /\ result.kind # "none"

InDownload == args.op = "download_energy_balance"

\* the error taxonomy of the specification, in the code's exceptions
IsParseError(exc) == exc.class = "ValueError" /\ exc.msg = StrptimeMsg

IsHttpError(exc) == exc.class = "HTTPError"

IsDecodeError(exc) ==
    \/ exc.class = "ValueError" /\ exc.msg = "Response was not valid JSON"
    \/ exc.class = "requests.JSONDecodeError"

IsConfigError(exc) ==
    /\ exc.class = "RuntimeError"
    /\ exc.msg = "Set the FUSIONSOLAR_COOKIE environment variable with your session cookie."

\* this step ran the single-day fetcher once (fetch' holds its events)
FetcherRan == fetch' # <<>> /\ (calls' # calls \/ Len(log') > Len(log))

\* the response the fetcher of this step got, if it got one
GotResponse == Sel(fetch', {"response"}) # <<>>

ResponseOfStep == Sel(fetch', {"response"})[1]

\* the date string the fetcher of this step was called with
DateStrOfStep == Last(Sel(log', {"call"})).s

SuccessStatuses == 200..299

SevenHours == 7 * 3600

\* the ordinal of a parsed date
Ord(d) == ToOrdinal(d.year, d.month, d.day)

\* <output_dir>/<date>.json, written out again for the properties
JsonPathOf(output_dir, date) ==
    <<"/cwd/", output_dir, "/">> \o date \o <<".", "j", "s", "o", "n">>

\* n digits from position i of s
DigitRun(s, i, n) == i + n - 1 <= Len(s) /\ \A k \in i..(i + n - 1) : s[k] \in Digits

\* exactly "YYYY-MM-DD"
IsStrictDate(s) ==
    /\ Len(s) = 10
    /\ DigitRun(s, 1, 4) /\ s[5] = "-" /\ DigitRun(s, 6, 2) /\ s[8] = "-"
    /\ DigitRun(s, 9, 2)

\* exactly "YYYY-MM-DD HH:MM:SS"
IsStrictDateTime(s) ==
    /\ Len(s) = 19
    /\ IsStrictDate(SubSeq(s, 1, 10))
    /\ s[11] = " "
    /\ DigitRun(s, 12, 2) /\ s[14] = ":" /\ DigitRun(s, 15, 2) /\ s[17] = ":"
    /\ DigitRun(s, 18, 2)

\* four digits, "-", one or two digits, "-", one or two digits
IsLooseDate(s) ==
    \E lm \in 1..2, ld \in 1..2 :
        /\ Len(s) = 6 + lm + ld
        /\ DigitRun(s, 1, 4) /\ s[5] = "-" /\ DigitRun(s, 6, lm) /\ s[6 + lm] = "-"
        /\ DigitRun(s, 7 + lm, ld)

\* a loose date whose day may also be a blank and one digit: what %d takes
IsLooseRangeDate(s) ==
    \/ IsLooseDate(s)
    \/ \E lm \in 1..2 :
        /\ Len(s) = 8 + lm
        /\ DigitRun(s, 1, 4) /\ s[5] = "-" /\ DigitRun(s, 6, lm) /\ s[6 + lm] = "-"
        /\ s[7 + lm] = " " /\ DigitRun(s, 8 + lm, 1)

\* one or two digits, ":", one or two digits, ":", one or two digits
IsLooseTime(t) ==
    \E lh \in 1..2, lm \in 1..2, ls \in 1..2 :
        /\ Len(t) = lh + lm + ls + 2
        /\ DigitRun(t, 1, lh) /\ t[lh + 1] = ":" /\ DigitRun(t, lh + 2, lm)
        /\ t[lh + lm + 2] = ":" /\ DigitRun(t, lh + lm + 3, ls)

\* a loose range date, blanks, a loose time
IsLooseDateTime(s) ==
    \E i \in 1..Len(s), j \in 1..Len(s) :
        /\ i < j
        /\ IsLooseRangeDate(SubSeq(s, 1, i))
        /\ \A k \in (i + 1)..(j - 1) : s[k] = " "
        /\ j - 1 > i
        /\ IsLooseTime(SubSeq(s, j, Len(s)))

HasBlank(s) == \E k \in 1..Len(s) : s[k] = " "

(***************************************************************************)
(* The range iterator: C1, C2, C5, C6.                                     *)
(***************************************************************************)
\* the range call got past the parsing of its two dates
RangeParsed ==
    /\ InRange
    /\ ParseRangeDate(args.start_date).ok
    /\ ParseRangeDate(args.end_date).ok

StartOrd == Ord(ParseRangeDate(args.start_date))

EndOrd == Ord(ParseRangeDate(args.end_date))

\* the date strings the fetcher was called with so far are the first days of the
\* n days from ordinal s0 on, in order; all n of them once the call has returned
FetchedInOrder(fetched, s0, n) ==
    /\ Len(fetched) <= n
    /\ \A i \in 1..Len(fetched) : fetched[i].s = FormatDate(FromOrdinal(s0 + i - 1))
    /\ result.kind = "returned" => Len(fetched) = n

\* C1: for start <= end the range iterator calls the single-day fetcher exactly once
\* for every calendar day from start to end inclusive, in ascending order, one day
\* at a time: at every moment the days fetched so far are the first days of the
\* range in order, and when the call returns they are all of them.
C1_EveryDayOnceAscending ==
    (RangeParsed /\ StartOrd <= EndOrd) =>
        FetchedInOrder(Sel(log, {"call"}), StartOrd, EndOrd - StartOrd + 1)

\* the three days 2025-08-12..14 were fetched and the call returned; so was a range
\* over the leap day
C1_Witness ==
    /\ args.op = "download_energy_balance_range"
    /\ result.kind = "returned"
    /\ args.start_date = D_2025_08_12 /\ args.end_date = D_2025_08_14
    /\ Len(Sel(log, {"call"})) = 3
    /\ Sel(log, {"call"})[3].s = D_2025_08_14

\* files[path] is what the event says was written
StillOnDisk(ev) == ev.s \in DOMAIN files /\ files[ev.s] = ev.c

\* C2: a failure of the single-day fetcher on some day ends the range call at once
\* with that same failure: the failed fetch is the last thing the call did (no fetch
\* and no delay follows), the call has raised the exception the fetcher raised and
\* returned no list, and every file saved on an earlier day is on disk as written.
C2_FailureAbortsRange ==
    InRange =>
        \A i \in 1..Len(log) :
            log[i].e = "failed" =>
                /\ i = Len(log)
                /\ pc = "idle"
                /\ result.kind = "raised"
                /\ result.value = <<>>
                /\ Last(fetch).e = "raise"
                /\ result.exc.class = Last(fetch).c
                /\ result.exc.status = Last(fetch).n
                /\ log[i].c = result.exc.class
                /\ \A j \in 1..Len(log) : log[j].e = "saved" => StillOnDisk(log[j])

\* the fetcher failed on the second day of a range, after a first day was saved
C2_Witness ==
    /\ args.op = "download_energy_balance_range"
    /\ result.kind = "raised"
    /\ Len(Sel(log, {"saved"})) = 1
    /\ Last(log).e = "failed"
    /\ Len(Sel(log, {"call"})) = 2
    /\ args.end_date = D_2025_08_14 /\ args.start_date = D_2025_08_12

\* every pause is the configured positive delay, comes right after a saved day that
\* is not the last of the range, and is followed by nothing but the next fetch
PausesBetweenFetches(end_str) ==
    \A i \in 1..Len(log) :
        log[i].e = "sleep" =>
            /\ args.delay_seconds > 0
            /\ log[i].n = args.delay_seconds
            /\ i > 2
            /\ log[i - 1].e = "saved"
            /\ log[i - 2].e = "call" /\ log[i - 2].s # end_str
            /\ IF i < Len(log) THEN log[i + 1].e = "call" ELSE pc = "loop"

\* C5: over n >= 1 days with a delay greater than zero there are exactly n - 1
\* pauses, each after a successful fetch of a day that is not the last and before
\* the fetch of the next day; there is none after the last day, and none at all
\* when the delay is zero or negative.
C5_DelayPolicy ==
    (RangeParsed /\ StartOrd <= EndOrd) =>
        /\ PausesBetweenFetches(FormatDate(ParseRangeDate(args.end_date)))
        /\ result.kind = "returned" =>
              Len(Sel(log, {"sleep"})) =
                  IF args.delay_seconds > 0 THEN EndOrd - StartOrd ELSE 0
        /\ args.delay_seconds <= 0 => Sel(log, {"sleep"}) = <<>>

\* three days with a delay of 2 seconds: two pauses
C5_Witness ==
    /\ args.op = "download_energy_balance_range"
    /\ result.kind = "returned"
    /\ args.delay_seconds = 2
    /\ Len(Sel(log, {"call"})) = 3
    /\ Len(Sel(log, {"sleep"})) = 2

\* C6: with start strictly after end the range iterator fetches nothing, pauses
\* nowhere, writes no file, raises nothing, and what it returns is the empty list.
C6_EmptyRange ==
    (RangeParsed /\ StartOrd > EndOrd) =>
        /\ log = <<>>
        /\ fetch = <<>>
        /\ result.kind \in {"running", "returned"}
        /\ result.value = <<>>
        /\ saved_paths = <<>>

\* a range from 2025-08-14 back to 2025-08-12 has returned
C6_Witness ==
    /\ args.op = "download_energy_balance_range"
    /\ args.start_date = D_2025_08_14 /\ args.end_date = D_2025_08_12
    /\ result = Result("returned", NoExc, <<>>)

(***************************************************************************)
(* The single-day fetcher: C3, C4, C7, C8, C9.                             *)
(***************************************************************************)
\* C3 (as amended): for every response whose status is a client or server error,
\* 400 to 599, download_energy_balance fails with an HTTPError carrying that
\* status, and the file system is left as it was: the destination file is neither
\* created nor overwritten.
C3_ErrorStatusRaisesHttpError ==
    [][(FetcherRan /\ GotResponse /\ ResponseOfStep.n \in 400..599) =>
          /\ result'.kind = "raised" /\ IsHttpError(result'.exc)
          /\ result'.exc.status = ResponseOfStep.n
          /\ Last(fetch').e = "raise" /\ Last(fetch').c = "HTTPError"
          /\ files' = files]_vars

\* C3 as stated: the same for every status outside the success range 200..299.
C3_AnyNonSuccessStatusRaisesHttpError ==
    [][(FetcherRan /\ GotResponse /\ ResponseOfStep.n \notin SuccessStatuses) =>
          /\ result'.kind = "raised" /\ IsHttpError(result'.exc)
          /\ result'.exc.status = ResponseOfStep.n
          /\ Last(fetch').e = "raise" /\ Last(fetch').c = "HTTPError"
          /\ files' = files]_vars

\* a status 500 for a date whose file is already on disk: HTTPError, the file stays
C3_Witness ==
    /\ InDownload
    /\ args.date_str = D_2025_08_12
    /\ result.kind = "raised" /\ IsHttpError(result.exc) /\ result.exc.status = 500
    /\ JsonPathOf("output", D_2025_08_12) \in DOMAIN files

\* C4: for every response with a success status whose body is not valid JSON,
\* download_energy_balance fails with a decode error, and the file system is left
\* as it was: the destination file is neither created nor overwritten.
C4_NonJsonBodyRaisesDecodeError ==
    [][(/\ FetcherRan /\ GotResponse
        /\ ResponseOfStep.n \in SuccessStatuses
        /\ ResponseOfStep.c \notin JsonBodies) =>
          /\ result'.kind = "raised" /\ IsDecodeError(result'.exc)
          /\ Last(fetch').e = "raise"
          /\ files' = files]_vars

\* a status 200 with an HTML body for a date whose file is already on disk
C4_Witness ==
    /\ InDownload
    /\ args.date_str = D_2025_08_12
    /\ result.kind = "raised" /\ IsDecodeError(result.exc)
    /\ Sel(fetch, {"response"}) # <<>>
    /\ Sel(fetch, {"response"})[1].n = 200
    /\ Sel(fetch, {"response"})[1].c = "<html>"
    /\ JsonPathOf("output", D_2025_08_12) \in DOMAIN files

\* the call failed on its date input before it did anything else
FailedOnDateOnly ==
    /\ result.kind = "raised"
    /\ IsParseError(result.exc)
    /\ Sel(fetch, {"get", "response", "mkdir", "write"}) = <<>>
    /\ Sel(log, {"saved", "sleep"}) = <<>>

\* C7 (as amended): a date string that strptime does not take -- for
\* download_energy_balance one that is not a year of four digits, "-", a month and
\* "-" a day of one or two digits each (and, if it holds a blank, blanks and a time
\* of three fields of one or two digits); for either date of the range iterator one
\* that is not such a date, time-of-day included -- makes the call fail with the
\* parse error before any request is sent, any file or directory touched, or any
\* day fetched; and no call fails with a parse error after having done any of that.
C7_RejectedDateFailsFirst ==
    /\ (InDownload /\ ~(IF HasBlank(args.date_str) THEN IsLooseDateTime(args.date_str)
                        ELSE IsLooseDate(args.date_str)))
          => FailedOnDateOnly
    /\ (/\ args.op = "download_energy_balance_range"
        /\ ~(IsLooseRangeDate(args.start_date) /\ IsLooseRangeDate(args.end_date)))
          => (FailedOnDateOnly /\ log = <<>> /\ fetch = <<>>)
    /\ (result.kind = "raised" /\ IsParseError(result.exc)) => FailedOnDateOnly

\* C7 as stated: every string that is neither exactly "YYYY-MM-DD" nor exactly
\* "YYYY-MM-DD HH:MM:SS" (for the range iterator: not exactly "YYYY-MM-DD") fails
\* with the parse error before anything else is done.
C7_NonCanonicalDateFailsFirst ==
    /\ (InDownload /\ ~IsStrictDate(args.date_str) /\ ~IsStrictDateTime(args.date_str))
          => FailedOnDateOnly
    /\ (/\ args.op = "download_energy_balance_range"
        /\ ~(IsStrictDate(args.start_date) /\ IsStrictDate(args.end_date)))
          => FailedOnDateOnly

\* "Aug 12 2025" was refused while a file of an earlier call lay on disk; and a
\* range whose start carries a time-of-day was refused too
C7_Witness ==
    /\ InDownload
    /\ args.date_str = D_AugWords
    /\ FailedOnDateOnly
    /\ fetch = <<Ev("raise", <<>>, 0, 0, "ValueError")>>
    /\ files # <<>>

\* The request of ev and the file of the run agree with the wall time dt that the
\* canonical string spells: queryTime = (wall seconds since 1970-01-01 00:00:00
\* minus 7 hours) * 1000, turning it back at UTC+7 spells the same string, and the
\* file is named by the date part of the string.
InstantAgrees(ev, dt) ==
    /\ ev.u = 0
    /\ ev.n = LocalSeconds(dt) - SevenHours
    /\ FormatDateTime(FromLocalSeconds(ev.n + SevenHours)) = ev.s
    /\ \A j \in 1..Len(fetch) :
          fetch[j].e = "write" =>
              fetch[j].s = JsonPathOf(args.output_dir, SubSeq(ev.s, 1, 10))

\* dateStr is the canonical spelling of the input, midnight for a date-only input
CanonicalOf(ev, dt, date_str) ==
    /\ IsStrictDateTime(ev.s)
    /\ dt.ok
    /\ dt = ParseDateStr(date_str)
    /\ ~HasBlank(date_str) => <<dt.hour, dt.minute, dt.second>> = <<0, 0, 0>>

\* C8 (as amended): for every valid input whose wall time is 1920-04-01 00:17:56 or
\* later (date-only inputs at 00:00:00), queryTime and dateStr of the request are
\* the same instant: dateStr is the canonical spelling of the input, queryTime is
\* (wall seconds since 1970-01-01 00:00:00 minus 7 hours) * 1000, turning it back at
\* UTC+7 gives dateStr again, and the file is named by the date part of dateStr.
C8_QueryInstantAgrees ==
    \A i \in 1..Len(fetch) :
        (/\ fetch[i].e = "get"
         /\ LocalSeconds(StrptimeDateTime(fetch[i].s)) >= BangkokStandardFrom) =>
            /\ CanonicalOf(fetch[i], StrptimeDateTime(fetch[i].s),
                           Last(Sel(log, {"call"})).s)
            /\ InstantAgrees(fetch[i], StrptimeDateTime(fetch[i].s))

\* C8 as stated: the same for every valid input.
C8_QueryInstantAgreesAlways ==
    \A i \in 1..Len(fetch) :
        fetch[i].e = "get" =>
            /\ CanonicalOf(fetch[i], StrptimeDateTime(fetch[i].s),
                           Last(Sel(log, {"call"})).s)
            /\ InstantAgrees(fetch[i], StrptimeDateTime(fetch[i].s))

\* "2025-08-12 13:45:07" was requested and saved
C8_Witness ==
    /\ InDownload
    /\ args.date_str = D_2025_08_12 \o T_13_45_07
    /\ result.kind = "returned"
    /\ fetch[1].e = "get"
    /\ fetch[1].s = D_2025_08_12 \o T_13_45_07
    /\ Last(fetch).e = "write"

\* this step ran the fetcher and the fetcher returned
FetcherSaved == FetcherRan /\ Last(fetch').e = "write"

\* this step created or replaced the file p with text and changed no other file
WroteExactly(p, text) ==
    /\ DOMAIN files' = DOMAIN files \cup {p}
    /\ files'[p] = text
    /\ \A q \in DOMAIN files \ {p} : files'[q] = files[q]

\* p is <output_dir>/<YYYY-MM-DD>.json
IsDateFile(p) ==
    /\ Len(p) = 18
    /\ IsStrictDate(SubSeq(p, 4, 13))
    /\ p = JsonPathOf(p[2], SubSeq(p, 4, 13))

\* C9: each successful run of download_energy_balance creates or replaces exactly
\* one file, <output_dir>/<YYYY-MM-DD>.json, named by the date part of its input
\* alone, holding the payload of that run, and changes no other file; nothing else
\* changes any file.  So the directory holds at most one file for a date, and it
\* holds the payload of the latest successful fetch of that date.
C9_OneFilePerSuccessfulFetch ==
    [][/\ FetcherSaved =>
            WroteExactly(JsonPathOf(args'.output_dir,
                                    FormatDate(ParseDateStr(DateStrOfStep))),
                         JsonDump(ResponseJson(ResponseOfStep.c).payload))
       /\ ~FetcherSaved => files' = files
       /\ \A p \in DOMAIN files' : IsDateFile(p)]_vars

\* a fetch for "2025-08-12 13:45:07" replaced 2025-08-12.json, beside another file
C9_Witness ==
    /\ InDownload
    /\ calls = 2
    /\ args.date_str = D_2025_08_12 \o T_13_45_07
    /\ result.kind = "returned"
    /\ Cardinality(DOMAIN files) >= 2
    /\ files[JsonPathOf("output", D_2025_08_12)] = Last(fetch).c
    /\ Last(fetch).c = JsonDump([pv |-> 2])

(***************************************************************************)
(* The entry point: C10.                                                   *)
(***************************************************************************)
\* C10: the entry point fails with the descriptive configuration error both when
\* the credential variable is absent and when it is empty, before any fetch or
\* file; only with a non-empty credential does it run the range iterator and
\* print the count of the files written.
C10_ConfigErrorWhenAbsentOrEmpty ==
    /\ (args.op = "__main__" /\ (~args.env.isset \/ args.env.value = "")) =>
          /\ result.kind = "raised"
          /\ IsConfigError(result.exc)
          /\ log = <<>>
          /\ fetch = <<>>
    /\ (args.op = "__main__" /\ result.kind = "returned") =>
          /\ args.env.isset /\ args.env.value # ""
          /\ stdout = <<Len(result.value)>>

====
